---- MODULE Spec2Model ----
(***************************************************************************)
(* Recent-follower-delta detection of rafflegram.                          *)
(*                                                                         *)
(* The model follows src/live_orientation_picker.py (LiveOrientationPicker)*)
(* with its two callers, the command line main() and the web endpoint      *)
(* api_orientation_pick of src/ui/app.py, and select_random_winner of      *)
(* src/instagram_social_follower_picker.py.                                *)
(*                                                                         *)
(* Time is counted in ticks; TicksPerSecond ticks make one second.  A      *)
(* snapshot file is named after the second of its capture, its content     *)
(* carries the full-precision capture time (the tick).                     *)
(***************************************************************************)
EXTENDS Integers, Sequences, FiniteSets, TLC

----------------------------------------------------------------------------
(* Bounds of the model *)

MaxClock == 5
TicksPerSecond == 3
MaxFetchTicks == 2
MaxWindow == 2
MaxCount == 1
MaxSeeds == 1
MaxFetchLen == 2

----------------------------------------------------------------------------
(* Strings are sequences of characters, so that startswith() and the       *)
(* lexicographic order of sorted() are computed, not assumed.              *)

Ord(c) ==
    CASE c = "_" -> 95
      [] c = "a" -> 97
      [] c = "b" -> 98
      [] c = "e" -> 101
      [] c = "i" -> 105
      [] c = "l" -> 108
      [] c = "n" -> 110
      [] c = "s" -> 115

Min(a, b) == IF a <= b THEN a ELSE b

Abs(x) == IF x < 0 THEN 0 - x ELSE x

StartsWith(s, prefix) ==
    /\ Len(prefix) <= Len(s)
    /\ \A i \in 1..Len(prefix) : s[i] = prefix[i]

(* s < t for two strings, as Python orders str *)
StrLess(s, t) ==
    \E k \in 1..(Min(Len(s), Len(t)) + 1) :
        /\ \A i \in 1..(k - 1) : s[i] = t[i]
        /\ IF k <= Min(Len(s), Len(t))
             THEN Ord(s[k]) < Ord(t[k])
             ELSE Len(s) < Len(t) /\ k = Len(s) + 1

(* The subjects: "a" and "a_b" *)
Usernames == { <<"a">>, <<"a", "_", "b">> }

BaselineInfix == <<"_", "b", "a", "s", "e", "l", "i", "n", "e", "_">>

(* now.strftime("%Y%m%d_%H%M%S"): the capture time cut to the second *)
Strftime(t) == t \div TicksPerSecond

(* f"live_snapshots/{username}_baseline_{timestamp}.json"; the timestamp   *)
(* has a fixed width, so it is kept as a number and ordered as one.        *)
SnapshotFilename(username, t) ==
    [stem |-> username \o BaselineInfix, ts |-> Strftime(t)]

FilenameLess(f, g) ==
    \/ StrLess(f.stem, g.stem)
    \/ f.stem = g.stem /\ f.ts < g.ts

----------------------------------------------------------------------------
(* Follower records and snapshots *)

Handles == {"", "alice", "Alice", "bob"}

Lower(h) == IF h = "Alice" THEN "alice" ELSE h

(* a provider record: 'username' ("" when the key is missing) and 'pk'     *)
(* (0 when missing)                                                         *)
FollowerRecords == [username : Handles, pk : {0, 7}]

PipelineRecords == [username : {"alice", "bob"}, pk : {7}]

RECURSIVE SeqsUpTo(_, _)
SeqsUpTo(S, n) ==
    IF n = 0 THEN { <<>> }
    ELSE LET shorter == SeqsUpTo(S, n - 1)
         IN  shorter \cup { Append(s, x) : s \in { q \in shorter : Len(q) = n - 1 }, x \in S }

(* the snapshot written by lines 152-158 and 190-196 *)
MetadataSnapshot(username, t, current_count) ==
    [username |-> username,
     datetime |-> t,
     follower_count |-> current_count,
     metadata_only |-> TRUE,
     followers |-> <<>>]

(* a snapshot with the follower list, as the delta step reads it *)
FullSnapshot(username, t, followers) ==
    [username |-> username,
     datetime |-> t,
     follower_count |-> Len(followers),
     metadata_only |-> FALSE,
     followers |-> followers]

----------------------------------------------------------------------------
(* get_baseline_snapshot, lines 97-136: the lookup among the stored files  *)

(* an optional value is a sequence of length 0 (None) or 1 *)
None == <<>>

Some(x) == <<x>>

(* float('inf') of line 108; real distances are never negative *)
Inf == 0 - 1

(* line 105: the files whose name starts with f"{username}_" *)
ListSnapshotFiles(st, username) ==
    { f \in DOMAIN st : StartsWith(f.stem, Append(username, "_")) }

(* line 110: sorted(files, reverse=True) *)
RECURSIVE SortedReverse(_)
SortedReverse(files) ==
    IF files = {} THEN <<>>
    ELSE LET top == CHOOSE f \in files : \A g \in files : g = f \/ FilenameLess(g, f)
         IN  <<top>> \o SortedReverse(files \ {top})

(* the loop without the test of line 124 *)
ScanStep_NoPastTest(acc, snapshot, now, target_time) ==
    LET time_from_target == Abs(snapshot.datetime - target_time)
    IN  IF (acc.best_time_diff # Inf /\ time_from_target < acc.best_time_diff)
             \/ acc.best_time_diff = Inf
          THEN [best_snapshot |-> Some(snapshot), best_time_diff |-> time_from_target]
          ELSE acc

(* the loop taking only snapshots within one tick of the target, as the    *)
(* comment of line 102 announces                                           *)
ScanStep_NearTarget(acc, snapshot, now, target_time) ==
    IF snapshot.datetime <= now /\ Abs(snapshot.datetime - target_time) <= 1
      THEN LET time_from_target == Abs(snapshot.datetime - target_time)
           IN  IF (acc.best_time_diff # Inf /\ time_from_target < acc.best_time_diff)
                    \/ acc.best_time_diff = Inf
                 THEN [best_snapshot |-> Some(snapshot), best_time_diff |-> time_from_target]
                 ELSE acc
      ELSE acc

(* the loop taking only snapshots that are at least as old as the window *)
ScanStep_OlderThanWindow(acc, snapshot, now, target_time) ==
    IF snapshot.datetime <= target_time
      THEN LET time_from_target == Abs(snapshot.datetime - target_time)
           IN  IF (acc.best_time_diff # Inf /\ time_from_target < acc.best_time_diff)
                    \/ acc.best_time_diff = Inf
                 THEN [best_snapshot |-> Some(snapshot), best_time_diff |-> time_from_target]
                 ELSE acc
      ELSE acc

(* lines 117-128: one turn of the loop *)
ScanStep(acc, snapshot, now, target_time) ==
    IF snapshot.datetime <= now
      THEN LET time_from_target == Abs(snapshot.datetime - target_time)
           IN  IF (acc.best_time_diff # Inf /\ time_from_target < acc.best_time_diff)
                    \/ acc.best_time_diff = Inf
                 THEN [best_snapshot |-> Some(snapshot), best_time_diff |-> time_from_target]
                 ELSE acc
      ELSE acc

RECURSIVE ScanSnapshots(_, _, _, _, _)
ScanSnapshots(st, names, acc, now, target_time) ==
    IF names = <<>> THEN acc
    ELSE ScanSnapshots(st, Tail(names),
                       ScanStep(acc, st[Head(names)], now, target_time),
                       now, target_time)

(* lines 97-136: the snapshot returned at line 136, or None when the       *)
(* function goes on to line 138                                            *)
FindBaseline(st, username, now, time_window) ==
    LET target_time == now - time_window
        names == SortedReverse(ListSnapshotFiles(st, username))
    IN  ScanSnapshots(st, names,
                      [best_snapshot |-> None, best_time_diff |-> Inf],
                      now, target_time).best_snapshot

----------------------------------------------------------------------------
(* find_recent_followers, lines 214-277: the delta step *)

(* lines 252-256 *)
BaselineUsernames(baseline) ==
    { Lower(baseline.followers[i].username) :
        i \in { j \in DOMAIN baseline.followers : baseline.followers[j].username # "" } }

(* lines 258-262 *)
FullDelta(baseline, current_followers) ==
    SelectSeq(current_followers,
              LAMBDA follower :
                  /\ follower.username # ""
                  /\ Lower(follower.username) \notin BaselineUsernames(baseline))

(* lines 221-249 without the return of lines 237-239: the slice of line   *)
(* 247 with a negative bound drops records from the end                    *)
MetadataDelta_NoGrowthTest(baseline, current_followers) ==
    LET baseline_count == baseline.follower_count
        current_count == Len(current_followers)
        growth == current_count - baseline_count
    IN  IF growth >= 0
          THEN SubSeq(current_followers, 1, Min(growth, current_count))
          ELSE SubSeq(current_followers, 1, current_count + growth)

(* lines 221-249 with current_followers[-growth:] at line 247 *)
MetadataDelta_LastRecords(baseline, current_followers) ==
    LET baseline_count == baseline.follower_count
        current_count == Len(current_followers)
        growth == current_count - baseline_count
    IN  IF growth <= 0
          THEN <<>>
          ELSE SubSeq(current_followers, current_count - Min(growth, current_count) + 1,
                      current_count)

(* lines 221-249 *)
MetadataDelta(baseline, current_followers) ==
    LET baseline_count == baseline.follower_count
        current_count == Len(current_followers)
        growth == current_count - baseline_count
    IN  IF growth <= 0
          THEN <<>>
          ELSE SubSeq(current_followers, 1, Min(growth, current_count))

(* lines 216-277: the list find_recent_followers returns once it has a     *)
(* baseline and the list get_followers returned                            *)
RecentFollowers(baseline, current_followers) ==
    IF current_followers = <<>>
      THEN <<>>
      ELSE IF baseline.metadata_only
             THEN MetadataDelta(baseline, current_followers)
             ELSE FullDelta(baseline, current_followers)

----------------------------------------------------------------------------
(* The winner selections.  random.choice is the index i.                   *)

(* an outcome of a selection: what the caller gets *)
Raised(exc) == [kind |-> "raise", status |-> 0, error |-> exc, winner |-> None]

Returned(w) == [kind |-> "return", status |-> 0, error |-> "", winner |-> w]

HttpError(status, msg) == [kind |-> "http", status |-> status, error |-> msg, winner |-> None]

HttpOk(w) == [kind |-> "http", status |-> 200, error |-> "", winner |-> Some(w)]

(* the indices random.choice may draw *)
Choices(candidates) == IF candidates = <<>> THEN {0} ELSE 1..Len(candidates)

(* instagram_social_follower_picker.py, lines 137-141 *)
select_random_winner(followers, i) ==
    IF followers = <<>>
      THEN Raised("ValueError: Cannot select winner from empty followers list")
      ELSE Returned(Some(followers[i]))

(* select_winner handing out a record for an empty list *)
select_winner_Placeholder(new_followers, i) ==
    IF new_followers = <<>>
      THEN Returned(Some([username |-> "Unknown", pk |-> 0]))
      ELSE Returned(Some(new_followers[i]))

(* live_orientation_picker.py, lines 281-308 *)
select_winner(new_followers, i) ==
    IF new_followers = <<>>
      THEN Returned(None)
      ELSE Returned(Some(new_followers[i]))

(* ui/app.py, lines 105-125 *)
api_orientation_select(recent_followers, i) ==
    IF recent_followers = <<>>
      THEN HttpError(400, "No new followers found")
      ELSE HttpOk(recent_followers[i])

----------------------------------------------------------------------------
(* The state *)

Procs == {1, 2}

(* the invocations that run one after the other *)
SeqProcs == {1}

VARIABLES
    clock,              \* datetime.now(), in ticks
    store,              \* the directory live_snapshots: file name -> content
    pc,                 \* where each invocation stands
    username,           \* argument of find_recent_followers
    time_window_hours,  \* argument of find_recent_followers, in ticks
    now,                \* `now` of get_baseline_snapshot (line 97)
    baseline,           \* what get_baseline_snapshot returned
    recent_followers,   \* what find_recent_followers returned
    outcome,            \* what the caller of the pipeline got
    store0,             \* history: the store when the invocation began
    counts_got,         \* history: each get_followers_count and its save
    followers_got,      \* history: the reply to get_followers
    pure_baseline,      \* input of the function checks
    pure_current,       \* input of the function checks
    pure_out            \* result of the function checks

shared == <<clock, store>>

locals == <<pc, username, time_window_hours, now, baseline, recent_followers,
            outcome, store0, counts_got, followers_got>>

pure == <<pure_baseline, pure_current, pure_out>>

vars == <<shared, locals, pure>>

NoOutcome == [kind |-> "none", status |-> 0, error |-> "", winner |-> None]

(* a reply of the provider to get_followers: the call failed, or the items *)
NoReply == [called |-> FALSE, ok |-> FALSE, items |-> <<>>]

FollowerReplies ==
    { [called |-> TRUE, ok |-> FALSE, items |-> <<>>] }
      \cup { [called |-> TRUE, ok |-> TRUE, items |-> c] :
                c \in SeqsUpTo(PipelineRecords, MaxFetchLen) }

(* what get_followers_count returns (lines 37-66): a count or None *)
CountResults == { None } \cup { Some(c) : c \in 0..MaxCount }

(* what get_followers returns (lines 68-93) for a reply *)
get_followers(reply) == IF reply.ok THEN reply.items ELSE <<>>

(* snapshots that other runs left in the directory, captured at the first  *)
(* tick or at the last one (from the future until then)                    *)
SeedSnapshots ==
    { FullSnapshot(u, t, << [username |-> "alice", pk |-> 7] >>) :
        u \in Usernames, t \in {0, MaxClock} }

StoreOf(snaps) ==
    [ f \in { SnapshotFilename(s.username, s.datetime) : s \in snaps } |->
        CHOOSE s \in snaps : SnapshotFilename(s.username, s.datetime) = f ]

SeedStores ==
    { StoreOf(snaps) : snaps \in
        { S \in SUBSET SeedSnapshots :
            /\ Cardinality(S) <= MaxSeeds
            /\ \A s1, s2 \in S :
                 s1 # s2 => SnapshotFilename(s1.username, s1.datetime)
                              # SnapshotFilename(s2.username, s2.datetime) } }

InitLocals ==
    /\ pc = [p \in Procs |-> "idle"]
    /\ username = [p \in Procs |-> <<>>]
    /\ time_window_hours = [p \in Procs |-> 0]
    /\ now = [p \in Procs |-> 0]
    /\ baseline = [p \in Procs |-> None]
    /\ recent_followers = [p \in Procs |-> <<>>]
    /\ outcome = [p \in Procs |-> NoOutcome]
    /\ store0 = [p \in Procs |-> StoreOf({})]
    /\ counts_got = [p \in Procs |-> <<>>]
    /\ followers_got = [p \in Procs |-> NoReply]

InitPureIdle ==
    /\ pure_baseline = MetadataSnapshot(<<>>, 0, 0)
    /\ pure_current = <<>>
    /\ pure_out = [op |-> "none", new_followers |-> <<>>, outcome |-> NoOutcome]

Init ==
    /\ clock = 0
    /\ store \in SeedStores
    /\ InitLocals
    /\ InitPureIdle

----------------------------------------------------------------------------
(* The orientation pipeline: find_recent_followers and its callers *)

(* open(filename, 'w') and json.dump: the file is created or replaced *)
WriteFile(st, name, content) == (name :> content) @@ st

(* the save without the test of lines 148 and 184: a failed fetch is saved *)
(* with the count 0                                                        *)
SaveBaseline_Unchecked(st, user, t, current_count, write_ok) ==
    IF write_ok
      THEN WriteFile(st, SnapshotFilename(user, t),
                     MetadataSnapshot(user, t,
                         IF current_count = None THEN 0 ELSE current_count[1]))
      ELSE st

(* lines 148-167 and 184-205: the snapshot is saved when the count is      *)
(* truthy and the write does not raise                                     *)
SaveBaseline(st, user, t, current_count, write_ok) ==
    IF current_count # None /\ current_count[1] # 0 /\ write_ok
      THEN WriteFile(st, SnapshotFilename(user, t),
                     MetadataSnapshot(user, t, current_count[1]))
      ELSE st

(* history entry of one creation: the count returned, how the write went  *)
(* ("none" when no write was tried) and the capture time used              *)
Creation(current_count, write_ok, t) ==
    [count |-> current_count,
     write |-> IF current_count = None \/ current_count[1] = 0 THEN "none"
               ELSE IF write_ok THEN "ok" ELSE "failed",
     t |-> t]

(* find_recent_followers is called; get_baseline_snapshot runs its lookup  *)
(* (lines 177, 97-136)                                                     *)
Start(p, user, window) ==
    /\ pc[p] = "idle"
    /\ LET found == FindBaseline(store, user, clock, window)
       IN  /\ baseline' = [baseline EXCEPT ![p] = found]
           /\ pc' = [pc EXCEPT ![p] =
                        IF found # None THEN "get_followers" ELSE "create_baseline"]
    /\ username' = [username EXCEPT ![p] = user]
    /\ time_window_hours' = [time_window_hours EXCEPT ![p] = window]
    /\ now' = [now EXCEPT ![p] = clock]
    /\ store0' = [store0 EXCEPT ![p] = store]
    /\ UNCHANGED <<shared, recent_followers, outcome, counts_got, followers_got, pure>>

(* get_baseline_snapshot found nothing: lines 138-169.  The count is       *)
(* fetched, which takes time, and saved under the `now` of line 97.        *)
CreateBaseline(p, current_count, d, write_ok) ==
    /\ pc[p] = "create_baseline"
    /\ clock + d <= MaxClock
    /\ clock' = clock + d
    /\ store' = SaveBaseline(store, username[p], now[p], current_count, write_ok)
    /\ counts_got' = [counts_got EXCEPT ![p] = Append(@, Creation(current_count, write_ok, now[p]))]
    /\ pc' = [pc EXCEPT ![p] = "create_again"]
    /\ UNCHANGED <<username, time_window_hours, now, baseline, recent_followers,
                   outcome, store0, followers_got, pure>>

(* find_recent_followers got no baseline: lines 178-212.  The count is     *)
(* fetched again and saved under the time read after the fetch (line 185). *)
CreateAgain(p, current_count, d, write_ok) ==
    /\ pc[p] = "create_again"
    /\ clock + d <= MaxClock
    /\ clock' = clock + d
    /\ store' = SaveBaseline(store, username[p], clock + d, current_count, write_ok)
    /\ counts_got' = [counts_got EXCEPT ![p] = Append(@, Creation(current_count, write_ok, clock + d))]
    /\ recent_followers' = [recent_followers EXCEPT ![p] = <<>>]
    /\ pc' = [pc EXCEPT ![p] = "returned"]
    /\ UNCHANGED <<username, time_window_hours, now, baseline,
                   outcome, store0, followers_got, pure>>

(* the delta step that also saves the followers it fetched as a snapshot *)
GetFollowers_Persisting(p, reply) ==
    /\ pc[p] = "get_followers"
    /\ followers_got' = [followers_got EXCEPT ![p] = reply]
    /\ recent_followers' = [recent_followers EXCEPT ![p] =
                               RecentFollowers(baseline[p][1], get_followers(reply))]
    /\ store' = WriteFile(store, SnapshotFilename(username[p], clock),
                          FullSnapshot(username[p], clock, get_followers(reply)))
    /\ pc' = [pc EXCEPT ![p] = "returned"]
    /\ UNCHANGED <<clock, username, time_window_hours, now, baseline,
                   outcome, store0, counts_got, pure>>

(* find_recent_followers has a baseline: lines 214-277 *)
GetFollowers(p, reply) ==
    /\ pc[p] = "get_followers"
    /\ followers_got' = [followers_got EXCEPT ![p] = reply]
    /\ recent_followers' = [recent_followers EXCEPT ![p] =
                               RecentFollowers(baseline[p][1], get_followers(reply))]
    /\ pc' = [pc EXCEPT ![p] = "returned"]
    /\ UNCHANGED <<shared, username, time_window_hours, now, baseline,
                   outcome, store0, counts_got, pure>>

(* main() of live_orientation_picker.py: lines 352-359 *)
PickCli(p, i) ==
    /\ pc[p] = "returned"
    /\ outcome' = [outcome EXCEPT ![p] = select_winner(recent_followers[p], i)]
    /\ pc' = [pc EXCEPT ![p] = "picked"]
    /\ UNCHANGED <<shared, username, time_window_hours, now, baseline,
                   recent_followers, store0, counts_got, followers_got, pure>>

(* api_orientation_pick of ui/app.py: lines 105-125 *)
PickWeb(p, i) ==
    /\ pc[p] = "returned"
    /\ outcome' = [outcome EXCEPT ![p] = api_orientation_select(recent_followers[p], i)]
    /\ pc' = [pc EXCEPT ![p] = "picked"]
    /\ UNCHANGED <<shared, username, time_window_hours, now, baseline,
                   recent_followers, store0, counts_got, followers_got, pure>>

(* the invocation is over; the picker object and its locals are dropped *)
Finish(p) ==
    /\ pc[p] = "picked"
    /\ pc' = [pc EXCEPT ![p] = "idle"]
    /\ username' = [username EXCEPT ![p] = <<>>]
    /\ time_window_hours' = [time_window_hours EXCEPT ![p] = 0]
    /\ now' = [now EXCEPT ![p] = 0]
    /\ baseline' = [baseline EXCEPT ![p] = None]
    /\ recent_followers' = [recent_followers EXCEPT ![p] = <<>>]
    /\ outcome' = [outcome EXCEPT ![p] = NoOutcome]
    /\ store0' = [store0 EXCEPT ![p] = StoreOf({})]
    /\ counts_got' = [counts_got EXCEPT ![p] = <<>>]
    /\ followers_got' = [followers_got EXCEPT ![p] = NoReply]
    /\ UNCHANGED <<shared, pure>>

(* time passes *)
Tick ==
    /\ clock < MaxClock
    /\ clock' = clock + 1
    /\ UNCHANGED <<store, locals, pure>>

Step(p) ==
    \/ \E user \in Usernames, window \in 1..MaxWindow : Start(p, user, window)
    \/ \E current_count \in CountResults, d \in 1..MaxFetchTicks, write_ok \in BOOLEAN :
          CreateBaseline(p, current_count, d, write_ok)
    \/ \E current_count \in CountResults, d \in 1..MaxFetchTicks, write_ok \in BOOLEAN :
          CreateAgain(p, current_count, d, write_ok)
    \/ \E reply \in FollowerReplies : GetFollowers(p, reply)
    \/ \E i \in Choices(recent_followers[p]) : PickCli(p, i)
    \/ \E i \in Choices(recent_followers[p]) : PickWeb(p, i)
    \/ Finish(p)

Next ==
    \/ Tick
    \/ \E p \in SeqProcs : Step(p)

Spec == Init /\ [][Next]_vars

(* several invocations at once for one subject that has no baseline, as   *)
(* concurrent requests to api_orientation_pick                             *)
InitConc ==
    /\ clock = 0
    /\ store = StoreOf({})
    /\ InitLocals
    /\ InitPureIdle

StepConc(p) ==
    \/ \E window \in 1..MaxWindow : Start(p, <<"a">>, window)
    \/ \E current_count \in CountResults, d \in 1..MaxFetchTicks, write_ok \in BOOLEAN :
          CreateBaseline(p, current_count, d, write_ok)
    \/ \E current_count \in CountResults, d \in 1..MaxFetchTicks, write_ok \in BOOLEAN :
          CreateAgain(p, current_count, d, write_ok)
    \/ \E reply \in FollowerReplies : GetFollowers(p, reply)
    \/ \E i \in Choices(recent_followers[p]) : PickWeb(p, i)
    \/ Finish(p)

NextConc ==
    \/ Tick
    \/ \E p \in Procs : StepConc(p)

SpecConc == InitConc /\ [][NextConc]_vars

----------------------------------------------------------------------------
(* The functions on their own: the delta step and the selections applied   *)
(* to inputs drawn from bounded sets                                       *)

MaxPureLen == 2

PureRecords == { r \in FollowerRecords : r.username # "" \/ r.pk # 0 }

PureBaselines ==
    { FullSnapshot(<<"a">>, 0, b) : b \in SeqsUpTo(PureRecords, MaxPureLen) }
      \cup { MetadataSnapshot(<<"a">>, 0, c) : c \in 0..(MaxPureLen + 1) }

InitPure ==
    /\ clock = 0
    /\ store = StoreOf({})
    /\ InitLocals
    /\ pure_baseline \in PureBaselines
    /\ pure_current \in SeqsUpTo(PureRecords, MaxPureLen)
    /\ pure_out = [op |-> "none", new_followers |-> <<>>, outcome |-> NoOutcome]

(* lines 216-277 on the inputs; get_followers returned pure_current *)
ApplyRecentFollowers ==
    /\ pure_out.op = "none"
    /\ pure_out' = [op |-> "find_recent_followers",
                    new_followers |-> RecentFollowers(pure_baseline, pure_current),
                    outcome |-> NoOutcome]
    /\ UNCHANGED <<shared, locals, pure_baseline, pure_current>>

ApplySelectRandomWinner(i) ==
    /\ pure_out.op = "none"
    /\ pure_out' = [op |-> "select_random_winner",
                    new_followers |-> <<>>,
                    outcome |-> select_random_winner(pure_current, i)]
    /\ UNCHANGED <<shared, locals, pure_baseline, pure_current>>

ApplySelectWinner(i) ==
    /\ pure_out.op = "none"
    /\ pure_out' = [op |-> "select_winner",
                    new_followers |-> <<>>,
                    outcome |-> select_winner(pure_current, i)]
    /\ UNCHANGED <<shared, locals, pure_baseline, pure_current>>

ApplyApiOrientationSelect(i) ==
    /\ pure_out.op = "none"
    /\ pure_out' = [op |-> "api_orientation_pick",
                    new_followers |-> <<>>,
                    outcome |-> api_orientation_select(pure_current, i)]
    /\ UNCHANGED <<shared, locals, pure_baseline, pure_current>>

NextPure ==
    \/ ApplyRecentFollowers
    \/ \E i \in Choices(pure_current) : ApplySelectRandomWinner(i)
    \/ \E i \in Choices(pure_current) : ApplySelectWinner(i)
    \/ \E i \in Choices(pure_current) : ApplyApiOrientationSelect(i)

SpecPure == InitPure /\ [][NextPure]_vars

----------------------------------------------------------------------------
(* Properties of the delta step and of the selections (SpecPure)           *)

FindRecentApplied == pure_out.op = "find_recent_followers"

AllHandles(s) == \A i \in DOMAIN s : s[i].username # ""

HandlesOf(s) == { Lower(s[i].username) : i \in DOMAIN s }

NoDuplicateHandles(s) ==
    \A i, j \in DOMAIN s : i # j => Lower(s[i].username) # Lower(s[j].username)

PureGrowth == Len(pure_current) - pure_baseline.follower_count

(* C1: with a full baseline B and a fetch C whose records all have a       *)
(* handle, newFollowers is exactly the records of C whose lower-cased      *)
(* handle is not a handle of B, in the order of C, and no two of them have *)
(* the same handle.                                                        *)
C1_FullDeltaIsSetSubtraction ==
    ( /\ FindRecentApplied
      /\ ~pure_baseline.metadata_only
      /\ AllHandles(pure_baseline.followers)
      /\ AllHandles(pure_current) )
    => /\ pure_out.new_followers =
            SelectSeq(pure_current,
                      LAMBDA c : Lower(c.username) \notin HandlesOf(pure_baseline.followers))
       /\ NoDuplicateHandles(pure_out.new_followers)

(* C3: with a count-only baseline, a fetch of no more records than the     *)
(* baseline's follower count gives an empty newFollowers.                  *)
C3_CountOnlyMonotonic ==
    ( /\ FindRecentApplied
      /\ pure_baseline.metadata_only
      /\ Len(pure_current) <= pure_baseline.follower_count )
    => pure_out.new_followers = <<>>

C3_Witness ==
    /\ FindRecentApplied
    /\ pure_baseline.metadata_only
    /\ Len(pure_current) = 2
    /\ pure_baseline.follower_count = 3
    /\ pure_out.new_followers = <<>>

(* C4: with a count-only baseline and growth > 0, newFollowers is the      *)
(* first `growth` records of the fetch, in the order of the fetch.         *)
C4_CountOnlyGrowthPrefix ==
    ( /\ FindRecentApplied
      /\ pure_baseline.metadata_only
      /\ PureGrowth > 0 )
    => /\ Len(pure_out.new_followers) = PureGrowth
       /\ \A i \in 1..PureGrowth : pure_out.new_followers[i] = pure_current[i]

C4_Witness ==
    /\ FindRecentApplied
    /\ pure_baseline.metadata_only
    /\ PureGrowth = 1
    /\ Len(pure_current) = 2
    /\ pure_current[1] # pure_current[2]
    /\ pure_out.new_followers = << pure_current[1] >>

(* the ways a selection tells its caller that there was nobody to pick:    *)
(* an exception, the value None, or an error reply                         *)
EmptyCandidateSetOutcome(o) ==
    \/ o.kind = "raise" /\ o.error # ""
    \/ o.kind = "return" /\ o.winner = None
    \/ o.kind = "http" /\ o.status = 400 /\ o.error # ""

SelectionApplied ==
    pure_out.op \in {"select_random_winner", "select_winner", "api_orientation_pick"}

----------------------------------------------------------------------------
(* Properties of the pipeline (Spec)                                       *)

(* the snapshots captured for a subject *)
SubjectSnapshots(st, user) == { st[f] : f \in { g \in DOMAIN st : st[g].username = user } }

(* the stored snapshots of a subject that are not from the future *)
PastSnapshots(st, user, t) == { s \in SubjectSnapshots(st, user) : s.datetime <= t }

Running(p) == pc[p] # "idle"

Ended(p) == pc[p] \in {"returned", "picked"}

TargetTime(p) == now[p] - time_window_hours[p]

Distance(p, snapshot) == Abs(snapshot.datetime - TargetTime(p))

(* the invocation went through the creation of a baseline, every count it  *)
(* fetched was a positive number and every write it tried went well        *)
CreatedCleanly(p) ==
    /\ Ended(p)
    /\ counts_got[p] # <<>>
    /\ \A i \in DOMAIN counts_got[p] : counts_got[p][i].write = "ok"

(* a Follower Source call of the invocation failed *)
SourceFailed(p) ==
    \/ \E i \in DOMAIN counts_got[p] : counts_got[p][i].count = None
    \/ followers_got[p].called /\ ~followers_got[p].ok

(* C2: an invocation that starts with no snapshot of its subject and whose *)
(* count fetches succeed ends with exactly one snapshot of the subject in  *)
(* the store, and with no baseline.                                        *)
C2_FirstRunCreatesExactlyOne ==
    \A p \in Procs :
        (CreatedCleanly(p) /\ SubjectSnapshots(store0[p], username[p]) = {})
        => /\ Cardinality(SubjectSnapshots(store, username[p])) = 1
           /\ baseline[p] = None
           /\ recent_followers[p] = <<>>

(* C5: the snapshot the lookup returns was captured at or before the time  *)
(* of the call.                                                            *)
C5_NoFutureBaseline ==
    \A p \in Procs :
        baseline[p] # None => baseline[p][1].datetime <= now[p]

(* the lookup passed over a future snapshot that is closer to the target   *)
(* than the one it returned                                                *)
C5_Witness ==
    \E p \in Procs :
        /\ Running(p)
        /\ baseline[p] # None
        /\ \E s \in SubjectSnapshots(store0[p], username[p]) :
              /\ s.datetime > now[p]
              /\ Distance(p, s) < Distance(p, baseline[p][1])

(* C6: the lookup returns, among the non-future snapshots of the subject,  *)
(* one at minimal distance from now - window, the most recent of those at  *)
(* that distance, and nothing only when there is none.                     *)
C6_NearestMatch ==
    \A p \in Procs :
        Running(p) =>
            LET candidates == PastSnapshots(store0[p], username[p], now[p])
            IN  IF candidates = {}
                  THEN baseline[p] = None
                  ELSE /\ baseline[p] # None
                       /\ baseline[p][1] \in candidates
                       /\ \A c \in candidates :
                             /\ Distance(p, baseline[p][1]) <= Distance(p, c)
                             /\ Distance(p, baseline[p][1]) = Distance(p, c)
                                  => c.datetime <= baseline[p][1].datetime

(* C7: a lookup for a subject returns only a snapshot captured for that    *)
(* subject, and nothing when the store holds no snapshot of the subject.   *)
C7_SubjectIsolation ==
    \A p \in Procs :
        Running(p) =>
            /\ baseline[p] # None => baseline[p][1].username = username[p]
            /\ SubjectSnapshots(store0[p], username[p]) = {} => baseline[p] = None

(* C8: a stored snapshot that is not from the future stays in the store    *)
(* with its content, whatever step is taken.                               *)
C8_AppendOnly ==
    [][\A f \in DOMAIN store :
          store[f].datetime <= clock => f \in DOMAIN store' /\ store'[f] = store[f]]_vars

(* C9: an invocation in which a Follower Source call failed ends with a    *)
(* classified error.                                                       *)
C9_NoDowngrade ==
    \A p \in Procs :
        (pc[p] = "picked" /\ SourceFailed(p))
        => outcome[p].error \in {"SourceUnavailable", "SubjectNotFound"}

(* the invocation is a first run: its subject had no snapshot and it went  *)
(* through the creation of a baseline                                      *)
FirstRun(p) ==
    /\ counts_got[p] # <<>>
    /\ SubjectSnapshots(store0[p], username[p]) = {}

(* what a caller gets from an invocation that found a baseline but no new  *)
(* followers                                                               *)
NoNewFollowersOutcomes == { select_winner(<<>>, 0), api_orientation_select(<<>>, 0) }

(* C11: what the caller gets from a first run whose fetches and writes all *)
(* went well differs from what it gets from a run that found a baseline    *)
(* and no new followers.                                                   *)
C11_FirstRunDistinguishable ==
    \A p \in Procs :
        (pc[p] = "picked" /\ FirstRun(p) /\ CreatedCleanly(p))
        => outcome[p] \notin NoNewFollowersOutcomes


(* the list was inferred from counts: a count-only baseline and growth > 0 *)
InferredFromCount(b, c) == b.metadata_only /\ Len(c) - b.follower_count > 0

(* C12: what find_recent_followers hands to its caller tells whether the   *)
(* list was inferred from a count-only baseline with growth > 0: no other  *)
(* baseline and fetch give the same return value with the other answer.    *)
C12_InferredResultIsLabelled ==
    FindRecentApplied =>
        \A b \in PureBaselines, c \in SeqsUpTo(PureRecords, MaxPureLen) :
            RecentFollowers(b, c) = pure_out.new_followers
            => (InferredFromCount(b, c) <=> InferredFromCount(pure_baseline, pure_current))


----------------------------------------------------------------------------
(* Properties of concurrent invocations (SpecConc)                         *)

(* the file and the content of a save that reported success *)
SavedName(p, e) == SnapshotFilename(username[p], e.t)

SavedContent(p, e) == MetadataSnapshot(username[p], e.t, e.count[1])

(* C13: while an invocation has not finished, the snapshot of its latest   *)
(* save that reported success is in the store with the content it wrote,   *)
(* whatever the other invocations do.                                      *)
C13_ConcurrentWritesKept ==
    \A p \in Procs :
        (Running(p) /\ counts_got[p] # <<>>)
        => LET e == counts_got[p][Len(counts_got[p])]
           IN  e.write = "ok"
               => /\ SavedName(p, e) \in DOMAIN store
                  /\ store[SavedName(p, e)] = SavedContent(p, e)


----------------------------------------------------------------------------
(* More properties of the pipeline (Spec)                                  *)

C15_NoPartialPersistence ==
    \A p \in SeqProcs :
        Running(p) =>
            /\ ( /\ counts_got[p] # <<>>
                 /\ \A i \in DOMAIN counts_got[p] : counts_got[p][i].count = None )
               => store = store0[p]
            /\ \A f \in DOMAIN store :
                  (f \notin DOMAIN store0[p] \/ store[f] # store0[p][f])
                  => \E i \in DOMAIN counts_got[p] :
                        /\ counts_got[p][i].count # None
                        /\ store[f] = SavedContent(p, counts_got[p][i])

(* both count fetches of a first run failed *)
C15_Witness ==
    \E p \in SeqProcs :
        /\ Ended(p)
        /\ Len(counts_got[p]) = 2
        /\ \A i \in DOMAIN counts_got[p] : counts_got[p][i].count = None
        /\ store = store0[p]


(* C16: while an invocation that resolved a baseline fetches the current   *)
(* followers, computes the new followers and selects a winner, no step     *)
(* adds, changes or removes a snapshot of the store.                       *)
C16_DeltaPathKeepsStore ==
    [][ (\E p \in SeqProcs : Running(p) /\ baseline[p] # None) => store' = store ]_vars

(* a winner was selected on the delta path and the store is as it was found *)
C16_Witness ==
    \E p \in SeqProcs :
        /\ pc[p] = "picked"
        /\ baseline[p] # None
        /\ followers_got[p] # NoReply
        /\ recent_followers[p] # <<>>
        /\ outcome[p] \notin NoNewFollowersOutcomes
        /\ store = store0[p]


----------------------------------------------------------------------------
(* More properties of the delta step (SpecPure) *)

(* the raw ids of the baseline records that have no handle *)
BaselineRawIds(b) ==
    { b.followers[j].pk : j \in { k \in DOMAIN b.followers : b.followers[k].username = "" } }

(* C17: with a full baseline, a current record that has no handle but has  *)
(* a raw id is among newFollowers exactly when its raw id is not the raw   *)
(* id of a handle-less baseline record.                                    *)
C17_RawIdFallback ==
    ( FindRecentApplied /\ ~pure_baseline.metadata_only )
    => \A i \in DOMAIN pure_current :
          LET c == pure_current[i]
          IN  (c.username = "" /\ c.pk # 0)
              => ( (\E j \in DOMAIN pure_out.new_followers : pure_out.new_followers[j] = c)
                   <=> c.pk \notin BaselineRawIds(pure_baseline) )


----------------------------------------------------------------------------
(* Invocations after a first run (Spec) *)

(* the snapshots of a subject that a first run has persisted: the creation *)
(* path is the only writer of count-only snapshots                         *)
FirstRunSnapshots(st, user) == { s \in SubjectSnapshots(st, user) : s.metadata_only }

====
